---- MODULE Spec2Model ----
(***************************************************************************)
(* Proposely backend (src/app.py): the proposal text composer, the plain   *)
(* text PDF builder, the storage resolver and the proposal endpoints.      *)
(*                                                                         *)
(* Strings are sequences of one-character strings, so that splitting,      *)
(* slicing, sanitising and concatenation are computed, not assumed.        *)
(* Vertical positions are in 1/Unit of a PDF point.                        *)
(***************************************************************************)
EXTENDS Integers, Sequences, FiniteSets, TLC

VARIABLES
  OPENAI_API_KEY, \* whether the text-generation collaborator is configured
  genPc,        \* proposals_generate in flight: idle, awaiting, completed, raised
  genCall,      \* the request in flight: its fields and the prompt sent
  genResp,      \* the response to the latest generation request, once given
  genMemo,      \* the first response given with no collaborator configured
  clock,        \* wall-clock time, advanced by the environment
  pdfIn,        \* build_pdf_bytes_from_content: the arguments (title, content)
  pdfSrc,       \* the lines the content was joined from (ground truth)
  pdfPc,        \* build_pdf_bytes_from_content: start, loop, done
  pdfLines,     \* content.split("\n")
  pdfK,         \* the number of lines the loop has handled
  pdfY,         \* the cursor y
  pdfOut,       \* the canvas operations so far, in order
  r2_client,    \* whether the R2 client was created at start-up
  R2_BUCKET_NAME, \* the bucket's name, as characters; empty when not set
  DATABASE_URL, \* which database serves the models: "sqlite" or "postgresql"
  users,        \* the rows of table users
  proposals,    \* the rows of table proposals
  idSeq,        \* the last value of the proposals id sequence (postgresql)
  localFiles,   \* the files of PDF_OUTPUT_DIR
  r2Objects,    \* the objects of the R2 bucket
  inflight,     \* per user, the create request between its two commits
  creates,      \* the number of create requests accepted so far
  written,      \* the filename each store call used, in order
  storeIn,      \* store_pdf_and_get_url called on its own: the arguments
  last          \* the step taken last and its outcome

genVars == <<OPENAI_API_KEY, genPc, genCall, genResp, genMemo, clock>>
pdfVars == <<pdfIn, pdfSrc, pdfPc, pdfLines, pdfK, pdfY, pdfOut>>
appVars == <<r2_client, R2_BUCKET_NAME, DATABASE_URL, users, proposals, idSeq, localFiles,
             r2Objects, inflight, creates, written, storeIn, last>>
vars == <<genVars, pdfVars, appVars>>

Min(a, b) == IF a < b THEN a ELSE b

(***************************************************************************)
(* Bounds of the model.                                                    *)
(***************************************************************************)
MaxLines == 95
MaxClock == 1
MaxCreates == 2
MaxUsers == 2

(***************************************************************************)
(* Values of the proposal endpoints                                        *)
(***************************************************************************)
UserIds == 1..MaxUsers

\* R2_BUCKET_NAME, lines 88-91: the names tried
Buckets ==
  {<<"p", "d", "f", "s">>,
   <<"p", "d", "f", "-", "d", "o", "w", "n", "l", "o", "a", "d">>}

\* None, for pdf_filename and pdf_url
NoName == <<>>
NoUrl == [kind |-> "none", path |-> <<>>]

NoStore ==
  [raised |-> FALSE, pdf_filename |-> NoName, pdf_url |-> NoUrl,
   name |-> NoName, bytes |-> <<>>, upload |-> "skipped",
   presign |-> "skipped", local |-> "skipped"]

NoStoreIn == [filename |-> <<>>, pdf_bytes |-> <<>>]

NoRequest == [id |-> 0, title |-> <<>>, content |-> <<>>]

\* what a read endpoint answers with: a list of rows, one proposal, a
\* redirect (to the step's pdf_url) or a file of PDF_OUTPUT_DIR
NoBody ==
  [kind |-> "none", rows |-> {}, title |-> <<>>, content |-> <<>>,
   name |-> <<>>, bytes |-> <<>>, whole |-> TRUE]

\* the JSON body of a create request, as received
NoInput == [title |-> <<>>, content |-> <<>>, generate_pdf |-> FALSE]

NoStep ==
  [op |-> "none", user |-> 0, status |-> 0, id |-> 0, cause |-> "none",
   pdf_url |-> NoUrl, stored |-> FALSE, store |-> NoStore,
   input |-> NoInput, body |-> NoBody]



(***************************************************************************)
(* generate_proposal_text, src/app.py:232-332                              *)
(* A text is a sequence of lines, a line a sequence of pieces: the literal *)
(* pieces of the f-string and the values substituted into it.              *)
(***************************************************************************)
Missing == "<missing>"

\* dict.get(key, default)
GetNoDefault(data, key, default) == IF data[key] = Missing THEN "" ELSE data[key]
Get(data, key, default) == IF data[key] = Missing THEN default ELSE data[key]

\* x or y, on strings
Or(x, y) == IF x = "" THEN y ELSE x

client_name(data) == Get(data, "client_name", "Client")
project_title(data) == Get(data, "project_title", "Project")
scope(data) == Get(data, "scope", "")
budget(data) == Get(data, "budget", "Not specified")
timeline(data) == Get(data, "timeline", "Not specified")
tone(data) == Get(data, "tone", "Professional and friendly")
notes(data) == Get(data, "notes", "")

SectionHeadings ==
  <<"Introduction", "Project Understanding", "Scope of Work", "Deliverables",
    "Timeline", "Investment", "Next Steps">>

\* lines 244-265
Prompt(data) ==
  << <<"You are an expert proposal writer.">>, <<>>,
     <<"Write a clear, client-ready proposal.">>, <<>>,
     <<"Client Name: ", client_name(data)>>,
     <<"Project Title: ", project_title(data)>>,
     <<"Scope: ", scope(data)>>,
     <<"Budget: ", budget(data)>>,
     <<"Timeline: ", timeline(data)>>,
     <<"Tone: ", tone(data)>>,
     <<"Extra Notes: ", notes(data)>>, <<>>,
     <<"Structure with headings:">> >>
  \o [i \in 1..Len(SectionHeadings) |-> <<"- ", SectionHeadings[i]>>]

\* lines 316-332: the body returned when the completion call raised
ErrorBody(data) ==
  << <<"# Proposal: ", project_title(data)>>, <<>>,
     <<"## ", "Introduction">>,
     <<"Thank you, ", client_name(data), ", for considering us.">>, <<>>,
     <<"## ", "Project Understanding">>,
     <<scope(data)>>, <<>>,
     <<"## ", "Timeline">>,
     <<timeline(data)>>, <<>>,
     <<"## ", "Investment">>,
     <<budget(data)>>, <<>>,
     <<"## ", "Next Steps">>,
     <<"We can adjust this proposal as needed to best fit your goals.">> >>

\* a body that carries the time of the call, as a dated letter would
TemplateBodyDated(data) ==
  << <<"# Proposal: ", project_title(data)>>, <<"Date: ", ToString(clock)>> >>
  \o Tail(ErrorBody(data))

\* lines 269-296: the body returned when OPENAI_API_KEY is unset
TemplateBody(data) ==
  << <<"# Proposal: ", project_title(data)>>, <<>>,
     <<"## ", "Introduction">>,
     <<"Thank you, ", client_name(data),
       ", for the opportunity to collaborate on this project.">>, <<>>,
     <<"## ", "Project Understanding">>,
     <<Or(scope(data), "We will work closely with you to clarify project goals and success metrics.")>>,
     <<>>,
     <<"## ", "Scope of Work">>,
     <<"- Requirement analysis and planning">>,
     <<"- Design and implementation">>,
     <<"- Testing and quality assurance">>,
     <<"- Launch and post-launch support">>, <<>>,
     <<"## ", "Deliverables">>,
     <<"- Fully implemented solution">>,
     <<"- Documentation and training (if required)">>,
     <<"- Handover of project assets">>, <<>>,
     <<"## ", "Timeline">>,
     <<timeline(data)>>, <<>>,
     <<"## ", "Investment">>,
     <<budget(data)>>, <<>>,
     <<"## ", "Next Steps">>,
     <<"Once this proposal is approved, we will finalize the timeline and begin the onboarding process.">> >>

\* what a step of generate_proposal_text hands to proposals_generate
Returned(content) == [raised |-> FALSE, content |-> content]
Raised == [raised |-> TRUE, content |-> <<>>]

\* lines 313-332: except Exception around the completion call
OnOpenAIErrorReraise(data) == Raised
OnOpenAIError(data) == Returned(ErrorBody(data))

\* lines 311-312: the completion's first choice is the body
OnCompletion(completion) == Returned(completion)

(***************************************************************************)
(* proposals_generate, src/app.py:523-545                                  *)
(***************************************************************************)
\* the request bodies tried: every field absent or present, the first three
\* also empty; budget and timeline are given together or not at all
FieldSets ==
  { [client_name |-> c, project_title |-> p, scope |-> s,
     budget |-> bt[1], timeline |-> bt[2], tone |-> Missing, notes |-> Missing] :
      c \in {Missing, "", "Acme"}, p \in {Missing, "", "Website"},
      s \in {Missing, "", "Build a shop"},
      bt \in {<<Missing, Missing>>, <<"$900", "2 weeks">>} }

NoFields == [k \in {"client_name", "project_title", "scope", "budget",
                    "timeline", "tone", "notes"} |-> Missing]

\* what the collaborator may answer
Completions == { << <<"# Proposal">>, <<"Written by the model.">> >> }

NoResponse ==
  [status |-> 0, cause |-> "none", body |-> "none", data |-> NoFields,
   content |-> <<>>, at |-> 0]

NoCall == [data |-> NoFields, prompt |-> <<>>, attempts |-> 0]

\* the first answer given without a collaborator is kept for comparison
Memo(resp) ==
  IF genMemo = NoResponse /\ resp.cause = "no_key" THEN resp ELSE genMemo

\* lines 534-545: the content, or 500 when generate_proposal_text raised
GenerateResponse(result, cause, data) ==
  [status |-> IF result.raised THEN 500 ELSE 200,
   cause |-> cause, body |-> "object", data |-> data,
   content |-> result.content, at |-> clock]

GenInit ==
  /\ OPENAI_API_KEY \in BOOLEAN
  /\ genPc = "idle"
  /\ genCall = NoCall
  /\ genResp = NoResponse
  /\ genMemo = NoResponse
  /\ clock = 0
  /\ pdfIn = [title |-> <<>>, content |-> <<>>]
  /\ pdfSrc = <<>>
  /\ pdfPc = "start"
  /\ pdfLines = <<>>
  /\ pdfK = 0
  /\ pdfY = 0
  /\ pdfOut = <<>>
  /\ r2_client = FALSE
  /\ R2_BUCKET_NAME = <<>>
  /\ DATABASE_URL = "sqlite"
  /\ users = {}
  /\ proposals = {}
  /\ idSeq = 0
  /\ localFiles = {}
  /\ r2Objects = {}
  /\ inflight = [u \in UserIds |-> NoRequest]
  /\ creates = 0
  /\ written = <<>>
  /\ storeIn = NoStoreIn
  /\ last = NoStep

\* a request whose body is not JSON: 400 (lines 529-530)
GenerateNotJson ==
  /\ genPc = "idle"
  /\ genResp' = [NoResponse EXCEPT !.status = 400, !.cause = "not_json",
                                   !.body = "not_json", !.at = clock]
  /\ genMemo' = Memo(genResp')
  /\ UNCHANGED <<OPENAI_API_KEY, genPc, genCall, clock>>
  /\ UNCHANGED <<pdfVars, appVars>>

\* a JSON body that is a non-empty array: data.get raises at line 236, which
\* proposals_generate turns into 500
GenerateArray ==
  /\ genPc = "idle"
  /\ genResp' = [GenerateResponse(Raised, "not_object", NoFields)
                   EXCEPT !.body = "array"]
  /\ genMemo' = Memo(genResp')
  /\ UNCHANGED <<OPENAI_API_KEY, genPc, genCall, clock>>
  /\ UNCHANGED <<pdfVars, appVars>>

\* a JSON object, no collaborator configured: the template (lines 267-296)
GenerateTemplate(data) ==
  /\ genPc = "idle"
  /\ ~OPENAI_API_KEY
  /\ genResp' = GenerateResponse(Returned(TemplateBody(data)), "no_key", data)
  /\ genMemo' = Memo(genResp')
  /\ UNCHANGED <<OPENAI_API_KEY, genPc, genCall, clock>>
  /\ UNCHANGED <<pdfVars, appVars>>

\* a JSON object, collaborator configured: the completion call is made, once,
\* with no timeout argument (lines 298-310), and the handler waits for it
GenerateCall(data) ==
  /\ genPc = "idle"
  /\ OPENAI_API_KEY
  /\ genPc' = "awaiting"
  /\ genCall' = [data |-> data, prompt |-> Prompt(data), attempts |-> 1]
  /\ genResp' = NoResponse
  /\ UNCHANGED <<OPENAI_API_KEY, genMemo, clock>>
  /\ UNCHANGED <<pdfVars, appVars>>

\* the collaborator answers with a completion
OpenAIAnswer ==
  /\ genPc = "awaiting"
  /\ genPc' = "completed"
  /\ UNCHANGED <<OPENAI_API_KEY, genCall, genResp, genMemo, clock>>
  /\ UNCHANGED <<pdfVars, appVars>>

\* the call raises: API error, quota, a client-side timeout, a malformed answer
OpenAIFail ==
  /\ genPc = "awaiting"
  /\ genPc' = "raised"
  /\ UNCHANGED <<OPENAI_API_KEY, genCall, genResp, genMemo, clock>>
  /\ UNCHANGED <<pdfVars, appVars>>

\* lines 311-312 and 536
GenReturn ==
  /\ genPc = "completed"
  /\ \E c \in Completions :
       genResp' = GenerateResponse(OnCompletion(c), "call_ok", genCall.data)
  /\ genMemo' = Memo(genResp')
  /\ genPc' = "idle"
  /\ genCall' = NoCall
  /\ UNCHANGED <<OPENAI_API_KEY, clock>>
  /\ UNCHANGED <<pdfVars, appVars>>

\* lines 313-332 and 536 (or 537-545 if the handler raised)
GenExcept ==
  /\ genPc = "raised"
  /\ genResp' = GenerateResponse(OnOpenAIError(genCall.data), "call_failed",
                                 genCall.data)
  /\ genMemo' = Memo(genResp')
  /\ genPc' = "idle"
  /\ genCall' = NoCall
  /\ UNCHANGED <<OPENAI_API_KEY, clock>>
  /\ UNCHANGED <<pdfVars, appVars>>

\* time passes
Tick ==
  /\ clock < MaxClock
  /\ clock' = clock + 1
  /\ UNCHANGED <<OPENAI_API_KEY, genPc, genCall, genResp, genMemo>>
  /\ UNCHANGED <<pdfVars, appVars>>

GenNext ==
  \/ GenerateNotJson
  \/ GenerateArray
  \/ \E data \in FieldSets : GenerateTemplate(data)
  \/ \E data \in FieldSets : GenerateCall(data)
  \/ OpenAIAnswer
  \/ OpenAIFail
  \/ GenReturn
  \/ GenExcept
  \/ Tick

GenSpec == GenInit /\ [][GenNext]_vars

\* the handler's own steps are taken once enabled; whether and when the
\* collaborator answers is not the program's to decide
FairGenSpec == GenSpec /\ WF_vars(GenReturn) /\ WF_vars(GenExcept)

(***************************************************************************)
(* build_pdf_bytes_from_content, src/app.py:338-362                        *)
(***************************************************************************)
Unit == 100
PageHeight == 84189
TopMargin == 50 * Unit
BottomMargin == 50 * Unit
TitleStep == 30 * Unit
LineStep == 16 * Unit
TitleBudget == 90
LineBudget == 100

NL == "\n"

\* s[:n] of Python: the first n characters, the whole of s when it is shorter
SliceAll(s, n) == s
Slice(s, n) == SubSeq(s, 1, Min(n, Len(s)))

\* str.split("\n"): the pieces between newlines; one (empty) piece for "".
\* The string is cut at a newline nearest to its middle, and so are the halves.
RECURSIVE SplitLines(_)
SplitLines(s) ==
  LET nls == {i \in 1..Len(s) : s[i] = NL}
      Off(i) == IF 2 * i >= Len(s) THEN 2 * i - Len(s) ELSE Len(s) - 2 * i
  IN IF nls = {}
     THEN <<s>>
     ELSE LET p == CHOOSE i \in nls : \A j \in nls : Off(i) <= Off(j)
          IN SplitLines(SubSeq(s, 1, p - 1))
               \o SplitLines(SubSeq(s, p + 1, Len(s)))

\* if y < 50: showPage()
NeedsPageBreakLate(y) == y < 0
NeedsPageBreak(y) == y < BottomMargin

\* c.drawString(50, y, text) and c.showPage(), as recorded on the canvas
DrawString(y, text) == [op |-> "drawString", y |-> y, text |-> text]
ShowPage == [op |-> "showPage", y |-> 0, text |-> <<>>]

\* lines 346-349: the title at the top margin, the cursor 30 below it
DrawTitle(title) ==
  [y |-> PageHeight - TopMargin - TitleStep,
   ops |-> <<DrawString(PageHeight - TopMargin, Slice(title, TitleBudget))>>]

\* lines 353-358: one iteration of the loop, on a canvas c = [y, ops]
DrawLine(c, line) ==
  LET brk == NeedsPageBreak(c.y)
      y1 == IF brk THEN PageHeight - TopMargin ELSE c.y
  IN [y |-> y1 - LineStep,
      ops |-> c.ops \o (IF brk THEN <<ShowPage>> ELSE <<>>)
                    \o <<DrawString(y1, Slice(line, LineBudget))>>]

\* lines 352-358: the loop over the lines from the k-th on
RECURSIVE DrawBody(_, _, _)
DrawBody(c, lines, k) ==
  IF k > Len(lines) THEN c ELSE DrawBody(DrawLine(c, lines[k]), lines, k + 1)

\* The canvas operations of the document, in order; c.save() then closes the
\* page that is open, and the bytes returned are those of the whole document.
build_pdf_bytes_from_content(title, content) ==
  DrawBody(DrawTitle(title), SplitLines(content), 1).ops

(***************************************************************************)
(* Strings of the storage layer                                            *)
(***************************************************************************)
Letters == {"a", "b", "d", "f", "l", "o", "p", "r", "s", "x"}
DigitChars == <<"0", "1", "2", "3", "4", "5", "6", "7", "8", "9">>
SafeChars ==
  Letters \cup {DigitChars[i] : i \in 1..10} \cup {"_", ".", "-"}

\* str.strip(chars)
StripChars(s, chars) ==
  LET keep == {i \in 1..Len(s) : s[i] \notin chars}
  IN IF keep = {} THEN <<>>
     ELSE SubSeq(s, CHOOSE i \in keep : \A j \in keep : i <= j,
                    CHOOSE i \in keep : \A j \in keep : i >= j)

\* a trim that was left out
StripNothing(s) == s
\* str.strip()
Strip(s) == StripChars(s, {" ", NL})

\* "_".join(s.split()): runs of whitespace inside become one "_", those at
\* the ends disappear
JoinWords(s) ==
  LET t == Strip(s)
      piece(i) == IF t[i] # " " THEN t[i]
                  ELSE IF t[i - 1] # " " THEN "_" ELSE " "
  IN SelectSeq([i \in 1..Len(t) |-> piece(i)], LAMBDA c : c # " ")

\* werkzeug.utils.secure_filename: path separators become spaces, words are
\* joined with "_", every character outside A-Za-z0-9_.- is dropped, and
\* leading and trailing "." and "_" are stripped
secure_filename(name) ==
  LET spaced == [i \in 1..Len(name) |-> IF name[i] = "/" THEN " " ELSE name[i]]
  IN StripChars(SelectSeq(JoinWords(spaced), LAMBDA c : c \in SafeChars),
                {".", "_"})

\* str(n) for n >= 0
RECURSIVE Digits(_)
Digits(n) ==
  IF n < 10 THEN <<DigitChars[n + 1]>>
  ELSE Digits(n \div 10) \o <<DigitChars[(n % 10) + 1]>>

TitleBudgetInName == 40

\* line 577: f"proposal_{secure_filename(title)[:40]}_{proposal.id}.pdf"
SafeName(title, id) ==
  <<"p", "r", "o", "p", "o", "s", "a", "l", "_">>
    \o Slice(secure_filename(title), TitleBudgetInName)
    \o <<"_">> \o Digits(id) \o <<".", "p", "d", "f">>

(***************************************************************************)
(* store_pdf_and_get_url, src/app.py:365-433                               *)
(***************************************************************************)
\* the presigned URL of an R2 key
SignedUrl(key) == [kind |-> "signed", path |-> key]
\* f"{base}/api/proposals/download/{safe_filename}"
LocalUrl(name) == [kind |-> "local", path |-> name]

\* line 405
R2Key(name) == <<"p", "r", "o", "p", "o", "s", "a", "l", "s", "/">> \o name

\* put_object: the object under the key is replaced
PutObject(objects, key, bytes) ==
  {o \in objects : o.key # key} \cup {[key |-> key, bytes |-> bytes]}

\* open(path, "wb") and write: the file is created or truncated by open; a
\* write that fails leaves what was written so far
WriteFile(files, name, bytes, whole) ==
  {f \in files : f.name # name}
    \cup {[name |-> name, bytes |-> bytes, whole |-> whole]}

\* what the environment does to one store call: whether put_object and
\* generate_presigned_url succeed, and whether the local open and write do.
\* Outcomes of calls that are not made are left out.
Uids == {<<"0", "a">>, <<"f", "1">>}
StoreEnvs(uids) ==
  {e \in [upload : {"ok", "fail"}, presign : {"ok", "fail"},
          local : {"ok", "open_fail", "write_fail"}, uid : uids] :
     /\ ~r2_client => e.upload = "fail"
     /\ e.upload = "fail" => e.presign = "fail"
     /\ (e.upload = "ok" /\ e.presign = "ok") => e.local = "ok"}

\* line 419: if not download_url
NeedsLocalNever(url) == FALSE
NeedsLocal(url) == url = NoUrl

\* The call's outcome: the name and URL returned, or raised; the two stores
\* after it; and which of upload, presign and local write were attempted.
store_pdf_and_get_url(pdf_bytes, filename, env) ==
  LET secured == secure_filename(filename)
      \* line 404: the uuid name is used only when nothing is left of filename
      safe_filename == IF secured = <<>>
                       THEN <<"p", "r", "o", "p", "o", "s", "a", "l", "_">>
                              \o env.uid \o <<".", "p", "d", "f">>
                       ELSE secured
      key == R2Key(safe_filename)
      uploaded == r2_client /\ env.upload = "ok"
      signed == uploaded /\ env.presign = "ok"
      url1 == IF signed THEN SignedUrl(key) ELSE NoUrl
      toLocal == NeedsLocal(url1)
      raised == toLocal /\ env.local # "ok"
  IN [raised |-> raised,
      pdf_filename |-> IF raised THEN NoName ELSE safe_filename,
      pdf_url |-> IF raised THEN NoUrl
                  ELSE IF toLocal THEN LocalUrl(safe_filename) ELSE url1,
      name |-> safe_filename,
      bytes |-> pdf_bytes,
      upload |-> IF r2_client THEN env.upload ELSE "skipped",
      presign |-> IF uploaded THEN env.presign ELSE "skipped",
      local |-> IF toLocal THEN env.local ELSE "skipped",
      r2Objects |-> IF uploaded THEN PutObject(r2Objects, key, pdf_bytes)
                    ELSE r2Objects,
      localFiles |->
        IF toLocal /\ env.local = "ok"
        THEN WriteFile(localFiles, safe_filename, pdf_bytes, TRUE)
        ELSE IF toLocal /\ env.local = "write_fail"
        THEN WriteFile(localFiles, safe_filename, pdf_bytes, FALSE)
        ELSE localFiles]

\* the part of a store call's outcome that the step record keeps
StoreOutcome(r) ==
  [k \in DOMAIN NoStore |-> r[k]]

(***************************************************************************)
(* The builder, one loop iteration at a time, on bounded inputs            *)
(***************************************************************************)
Alphabet == <<"a", "b", "c", "d", "e", "f", "g">>
Text(n) == [i \in 1..n |-> Alphabet[(i % 7) + 1]]

\* "\n".join(lines[lo..hi])
RECURSIVE JoinLines(_, _, _)
JoinLines(lines, lo, hi) ==
  IF lo > hi THEN <<>>
  ELSE IF lo = hi THEN lines[lo]
  ELSE LET mid == (lo + hi) \div 2
       IN JoinLines(lines, lo, mid) \o <<NL>> \o JoinLines(lines, mid + 1, hi)

TitleLens == {0, TitleBudget - 1, TitleBudget, TitleBudget + 1}
LongLens == {0, LineBudget - 1, LineBudget, LineBudget + 1, LineBudget + 50}
LineCounts == {1, 2, MaxLines \div 2, MaxLines}

\* n lines, short ones of 0..2 characters, line `at` of `long` characters
PdfLines(n, at, long) ==
  [k \in 1..n |-> IF k = at THEN Text(long) ELSE Text(k % 3)]

PdfInit ==
  /\ \E n \in LineCounts, long \in LongLens, t \in TitleLens :
       \E at \in {1, n} :
         /\ pdfSrc = PdfLines(n, at, long)
         /\ pdfIn = [title |-> Text(t),
                     content |-> JoinLines(PdfLines(n, at, long), 1, n)]
  /\ pdfPc = "start"
  /\ pdfLines = <<>>
  /\ pdfK = 0
  /\ pdfY = 0
  /\ pdfOut = <<>>
  /\ OPENAI_API_KEY = FALSE
  /\ genPc = "idle"
  /\ genCall = NoCall
  /\ genResp = NoResponse
  /\ genMemo = NoResponse
  /\ clock = 0
  /\ r2_client = FALSE
  /\ R2_BUCKET_NAME = <<>>
  /\ DATABASE_URL = "sqlite"
  /\ users = {}
  /\ proposals = {}
  /\ idSeq = 0
  /\ localFiles = {}
  /\ r2Objects = {}
  /\ inflight = [u \in UserIds |-> NoRequest]
  /\ creates = 0
  /\ written = <<>>
  /\ storeIn = NoStoreIn
  /\ last = NoStep

\* lines 342-352
PdfStart ==
  /\ pdfPc = "start"
  /\ pdfPc' = "loop"
  /\ pdfLines' = SplitLines(pdfIn.content)
  /\ pdfK' = 0
  /\ pdfY' = DrawTitle(pdfIn.title).y
  /\ pdfOut' = DrawTitle(pdfIn.title).ops
  /\ UNCHANGED <<pdfIn, pdfSrc>>
  /\ UNCHANGED <<genVars, appVars>>

\* lines 353-358
PdfLine ==
  /\ pdfPc = "loop"
  /\ pdfK < Len(pdfLines)
  /\ LET c == DrawLine([y |-> pdfY, ops |-> pdfOut], pdfLines[pdfK + 1])
     IN /\ pdfY' = c.y
        /\ pdfOut' = c.ops
  /\ pdfK' = pdfK + 1
  /\ UNCHANGED <<pdfIn, pdfSrc, pdfPc, pdfLines>>
  /\ UNCHANGED <<genVars, appVars>>

\* lines 360-362
PdfSave ==
  /\ pdfPc = "loop"
  /\ pdfK = Len(pdfLines)
  /\ pdfPc' = "done"
  /\ UNCHANGED <<pdfIn, pdfSrc, pdfLines, pdfK, pdfY, pdfOut>>
  /\ UNCHANGED <<genVars, appVars>>

PdfNext == PdfStart \/ PdfLine \/ PdfSave

PdfSpec == PdfInit /\ [][PdfNext]_vars

(***************************************************************************)
(* The proposal endpoints, src/app.py:454-483 and 548-670                  *)
(***************************************************************************)
\* str.lower(), on the alphabet of the e-mail addresses tried
Lower(s) == [i \in 1..Len(s) |-> IF s[i] = "U" THEN "u" ELSE s[i]]

Emails ==
  {<<>>, <<" ", "U", "1">>} \cup {<<"u">> \o Digits(i) : i \in UserIds}
Passwords == {"", "pw"}

LongTitle == [i \in 1..(TitleBudgetInName + 1) |-> IF i % 2 = 0 THEN "a" ELSE "b"]
Titles == {<<" ">>, <<"a", "/", "b", " ">>}
Contents == {<<NL, " ">>, <<"x", NL, "x", "x", " ">>}

Ids(rows) == {r.id : r \in rows}
Max(S) == IF S = {} THEN 0 ELSE CHOOSE n \in S : \A m \in S : m <= n

\* the id the database gives a new proposals row: the sequence's next value
\* on postgresql, the largest rowid in the table plus one on sqlite
NewId == IF DATABASE_URL = "sqlite" THEN Max(Ids(proposals)) + 1 ELSE idSeq + 1

Init ==
  /\ r2_client \in BOOLEAN
  /\ R2_BUCKET_NAME \in (IF r2_client THEN Buckets ELSE {<<>>})
  /\ DATABASE_URL \in {"sqlite", "postgresql"}
  /\ users = {}
  /\ proposals = {}
  /\ idSeq = 0
  /\ localFiles = {}
  /\ r2Objects = {}
  /\ inflight = [u \in UserIds |-> NoRequest]
  /\ creates = 0
  /\ written = <<>>
  /\ storeIn = NoStoreIn
  /\ last = NoStep
  /\ OPENAI_API_KEY = FALSE
  /\ genPc = "idle"
  /\ genCall = NoCall
  /\ genResp = NoResponse
  /\ genMemo = NoResponse
  /\ clock = 0
  /\ pdfIn = [title |-> <<>>, content |-> <<>>]
  /\ pdfSrc = <<>>
  /\ pdfPc = "start"
  /\ pdfLines = <<>>
  /\ pdfK = 0
  /\ pdfY = 0
  /\ pdfOut = <<>>

Step(op, user, status, id, cause) ==
  [NoStep EXCEPT !.op = op, !.user = user, !.status = status, !.id = id,
                 !.cause = cause]

\* register, lines 455-483
Register(email, password) ==
  LET e == Lower(Strip(email))
  IN /\ IF e = <<>> \/ password = ""
        THEN /\ last' = Step("register", 0, 400, 0, "required")
             /\ UNCHANGED users
        ELSE IF \E usr \in users : usr.email = e
        THEN /\ last' = Step("register", 0, 400, 0, "exists")
             /\ UNCHANGED users
        ELSE /\ Cardinality(users) < MaxUsers
             /\ users' = users \cup {[id |-> Max(Ids(users)) + 1, email |-> e]}
             /\ last' = Step("register", Max(Ids(users)) + 1, 200, 0, "none")
     /\ UNCHANGED <<r2_client, R2_BUCKET_NAME, DATABASE_URL, proposals, idSeq, localFiles,
                    r2Objects, inflight, creates, written, storeIn>>
     /\ UNCHANGED <<genVars, pdfVars>>

\* proposals_create, lines 554-572: validation, then the row is inserted and
\* committed; without generate_pdf the request ends here (lines 597-605)
CreateBegin(u, rawTitle, rawContent, generate_pdf_flag) ==
  LET title == Strip(rawTitle)
      content == Strip(rawContent)
      id == NewId
      input == [title |-> rawTitle, content |-> rawContent,
                generate_pdf |-> generate_pdf_flag]
  IN /\ u \in Ids(users)
     /\ inflight[u] = NoRequest
     /\ creates < MaxCreates
     /\ IF title = <<>> \/ content = <<>>
        THEN /\ last' = [Step("create", u, 400, 0, "required")
                          EXCEPT !.input = input]
             /\ UNCHANGED <<proposals, idSeq, inflight, creates>>
        ELSE /\ proposals' = proposals \cup
                  {[id |-> id, user_id |-> u, title |-> title,
                    content |-> content, pdf_filename |-> NoName,
                    pdf_url |-> NoUrl]}
             /\ idSeq' = IF DATABASE_URL = "sqlite" THEN idSeq ELSE id
             /\ creates' = creates + 1
             /\ IF generate_pdf_flag
                THEN /\ inflight' = [inflight EXCEPT ![u] =
                          [id |-> id, title |-> title, content |-> content]]
                     /\ last' = [Step("create_commit", u, 0, id, "none")
                                   EXCEPT !.input = input]
                ELSE /\ UNCHANGED inflight
                     /\ last' = [Step("create", u, 200, id, "none")
                                   EXCEPT !.input = input]
     /\ UNCHANGED <<r2_client, R2_BUCKET_NAME, DATABASE_URL, users, localFiles, r2Objects,
                    written, storeIn>>
     /\ UNCHANGED <<genVars, pdfVars>>

\* proposals_create, lines 574-605: the PDF is built and stored and the row
\* updated. The row was expired by the first commit: reading proposal.id at
\* line 577 reloads it by primary key, which raises if it was deleted since.
CreateFinish(u, buildOk, env) ==
  LET req == inflight[u]
      rowThere == req.id \in Ids(proposals)
      pdf_bytes == build_pdf_bytes_from_content(req.title, req.content)
      r == store_pdf_and_get_url(pdf_bytes, SafeName(req.title, req.id), env)
  IN /\ req # NoRequest
     /\ inflight' = [inflight EXCEPT ![u] = NoRequest]
     /\ IF ~buildOk
        THEN /\ last' = Step("create", u, 500, req.id, "build")
             /\ UNCHANGED <<proposals, localFiles, r2Objects, written>>
        ELSE IF ~rowThere
        THEN /\ last' = Step("create", u, 500, req.id, "deleted")
             /\ UNCHANGED <<proposals, localFiles, r2Objects, written>>
        ELSE /\ localFiles' = r.localFiles
             /\ r2Objects' = r.r2Objects
             /\ written' = Append(written, r.name)
             /\ IF r.raised
                THEN /\ last' = [Step("create", u, 500, req.id, "store")
                                   EXCEPT !.stored = TRUE,
                                          !.store = StoreOutcome(r)]
                     /\ UNCHANGED proposals
                ELSE /\ proposals' =
                          {IF p.id = req.id
                           THEN [p EXCEPT !.pdf_filename = r.pdf_filename,
                                          !.pdf_url = r.pdf_url]
                           ELSE p : p \in proposals}
                     /\ last' = [Step("create", u, 200, req.id, "none")
                                   EXCEPT !.pdf_url = r.pdf_url,
                                          !.stored = TRUE,
                                          !.store = StoreOutcome(r)]
     /\ UNCHANGED <<r2_client, R2_BUCKET_NAME, DATABASE_URL, users, idSeq, creates, storeIn>>
     /\ UNCHANGED <<genVars, pdfVars>>

\* proposals_delete, lines 651-670
Delete(u, proposal_id) ==
  /\ u \in Ids(users)
  /\ IF \E p \in proposals : p.id = proposal_id /\ p.user_id = u
     THEN LET p == CHOOSE q \in proposals :
                     q.id = proposal_id /\ q.user_id = u
          IN /\ localFiles' = {f \in localFiles :
                                 p.pdf_filename = NoName
                                   \/ f.name # p.pdf_filename}
             /\ proposals' = proposals \ {p}
             /\ last' = Step("delete", u, 200, proposal_id, "none")
     ELSE /\ last' = Step("delete", u, 404, proposal_id, "not_found")
          /\ UNCHANGED <<proposals, localFiles>>
  /\ UNCHANGED <<r2_client, R2_BUCKET_NAME, DATABASE_URL, users, idSeq, r2Objects, inflight,
                 creates, written, storeIn>>
  /\ UNCHANGED <<genVars, pdfVars>>

Next ==
  \/ \E email \in Emails, password \in Passwords : Register(email, password)
  \/ \E u \in UserIds, t \in Titles, c \in Contents, g \in BOOLEAN :
       CreateBegin(u, t, c, g)
  \/ \E u \in UserIds, buildOk \in BOOLEAN, env \in StoreEnvs({<<"0", "a">>}) :
       CreateFinish(u, buildOk, env)
  \/ \E u \in UserIds, id \in 1..MaxCreates : Delete(u, id)

Spec == Init /\ [][Next]_vars

(***************************************************************************)
(* The read endpoints, src/app.py:608-646 and 673-715                      *)
(***************************************************************************)
\* R2_ENDPOINT_URL and the base URL of this service, as characters
R2_ENDPOINT_URL == <<"h", "t", "t", "p", "s", ":", "/", "/", "r", "2">>
BaseUrl == <<"h", "t", "t", "p", ":", "/", "/", "h">>
DownloadRoute ==
  <<"/", "a", "p", "i", "/", "p", "r", "o", "p", "o", "s", "a", "l", "s",
    "/", "d", "o", "w", "n", "l", "o", "a", "d", "/">>

\* The text of a recorded pdf_url. A presigned URL addresses the bucket of a
\* custom endpoint_url by path: endpoint/bucket/key?signature. The local URL
\* is line 426.
UrlText(url) ==
  IF url.kind = "signed"
  THEN R2_ENDPOINT_URL \o <<"/">> \o R2_BUCKET_NAME \o <<"/">> \o url.path
         \o <<"?", "X">>
  ELSE IF url.kind = "local" THEN BaseUrl \o DownloadRoute \o url.path
  ELSE <<>>

\* str.startswith and the in operator on strings
StartsWith(s, prefix) ==
  Len(s) >= Len(prefix) /\ SubSeq(s, 1, Len(prefix)) = prefix
Contains(s, sub) ==
  \E i \in 1..(Len(s) - Len(sub) + 1) : SubSeq(s, i, i + Len(sub) - 1) = sub

\* lines 698-702: the recorded URL is taken for an R2 or external one
IsExternalUrl(url) ==
  /\ url # NoUrl
  /\ StartsWith(UrlText(url), <<"h", "t", "t", "p">>)
  /\ ~Contains(UrlText(url),
               <<"d", "o", "w", "n", "l", "o", "a", "d", "/">>)

\* the filenames asked of the download-by-filename route
FileNames == {f.name : f \in localFiles} \cup {<<"x">>}

\* proposals_all, lines 610-627 (the order of the list is left out)
All(u) ==
  /\ u \in Ids(users)
  /\ last' = [Step("all", u, 200, 0, "none") EXCEPT
               !.body = [NoBody EXCEPT
                 !.kind = "list",
                 !.rows = {[id |-> p.id, title |-> p.title,
                            pdf_url |-> p.pdf_url] :
                             p \in {q \in proposals : q.user_id = u}}]]
  /\ UNCHANGED <<r2_client, R2_BUCKET_NAME, DATABASE_URL, users, proposals,
                 idSeq, localFiles, r2Objects, inflight, creates, written,
                 storeIn>>
  /\ UNCHANGED <<genVars, pdfVars>>

\* proposals_get_one, lines 632-646
GetOne(u, proposal_id) ==
  /\ u \in Ids(users)
  /\ IF \E p \in proposals : p.id = proposal_id /\ p.user_id = u
     THEN LET p == CHOOSE q \in proposals :
                     q.id = proposal_id /\ q.user_id = u
          IN last' = [Step("get", u, 200, proposal_id, "none") EXCEPT
                        !.pdf_url = p.pdf_url,
                        !.body = [NoBody EXCEPT !.kind = "proposal",
                                                !.title = p.title,
                                                !.content = p.content]]
     ELSE last' = Step("get", u, 404, proposal_id, "not_found")
  /\ UNCHANGED <<r2_client, R2_BUCKET_NAME, DATABASE_URL, users, proposals,
                 idSeq, localFiles, r2Objects, inflight, creates, written,
                 storeIn>>
  /\ UNCHANGED <<genVars, pdfVars>>

\* proposals_download, lines 686-715
Download(u, proposal_id) ==
  /\ u \in Ids(users)
  /\ IF \E p \in proposals : p.id = proposal_id /\ p.user_id = u
     THEN LET p == CHOOSE q \in proposals :
                     q.id = proposal_id /\ q.user_id = u
          IN IF IsExternalUrl(p.pdf_url)
             THEN last' = [Step("download", u, 302, proposal_id, "none")
                             EXCEPT !.pdf_url = p.pdf_url,
                                    !.body = [NoBody EXCEPT
                                                !.kind = "redirect"]]
             ELSE IF /\ p.pdf_filename # NoName
                     /\ \E f \in localFiles : f.name = p.pdf_filename
             THEN LET f == CHOOSE g \in localFiles :
                             g.name = p.pdf_filename
                  IN last' = [Step("download", u, 200, proposal_id, "none")
                                EXCEPT !.body = [NoBody EXCEPT
                                         !.kind = "file", !.name = f.name,
                                         !.bytes = f.bytes,
                                         !.whole = f.whole]]
             ELSE last' = Step("download", u, 404, proposal_id, "no_pdf")
     ELSE last' = Step("download", u, 404, proposal_id, "not_found")
  /\ UNCHANGED <<r2_client, R2_BUCKET_NAME, DATABASE_URL, users, proposals,
                 idSeq, localFiles, r2Objects, inflight, creates, written,
                 storeIn>>
  /\ UNCHANGED <<genVars, pdfVars>>

\* proposals_download_by_filename, lines 673-683: the route carries no
\* jwt_required, so caller is whoever sends the request (0: nobody logged in)
DownloadByFilename(caller, filename) ==
  LET name == secure_filename(filename)
  IN /\ caller \in Ids(users) \cup {0}
     /\ IF \E f \in localFiles : f.name = name
        THEN LET f == CHOOSE g \in localFiles : g.name = name
             IN last' = [Step("download_file", caller, 200, 0, "none")
                           EXCEPT !.body = [NoBody EXCEPT
                                    !.kind = "file", !.name = f.name,
                                    !.bytes = f.bytes, !.whole = f.whole]]
        ELSE last' = Step("download_file", caller, 404, 0, "not_found")
     /\ UNCHANGED <<r2_client, R2_BUCKET_NAME, DATABASE_URL, users,
                    proposals, idSeq, localFiles, r2Objects, inflight,
                    creates, written, storeIn>>
     /\ UNCHANGED <<genVars, pdfVars>>

ReadOps == {"all", "get", "download", "download_file"}

\* Every endpoint of the proposals API. A read changes nothing but the record
\* of the last step, so what can follow a read is what can follow the state
\* it read: the requests that change state are taken from the states no read
\* has led to, and they are the well-formed ones (Next has the rejected ones).
ApiNext ==
  \/ \E u \in UserIds :
       last.op \notin ReadOps /\ Register(<<"u">> \o Digits(u), "pw")
  \/ \E u \in UserIds, g \in BOOLEAN :
       /\ last.op \notin ReadOps
       /\ CreateBegin(u, <<"a", "/", "b", " ">>, <<"x", NL, "x", "x", " ">>, g)
  \/ \E u \in UserIds, env \in StoreEnvs({<<"0", "a">>}) :
       last.op \notin ReadOps /\ CreateFinish(u, TRUE, env)
  \/ \E u \in UserIds, id \in 1..MaxCreates :
       last.op \notin ReadOps /\ Delete(u, id)
  \/ \E u \in UserIds : last.op \notin ReadOps /\ All(u)
  \/ \E u \in UserIds, id \in 1..MaxCreates :
       last.op \notin ReadOps /\ GetOne(u, id)
  \/ \E u \in UserIds, id \in 1..MaxCreates :
       last.op \notin ReadOps /\ Download(u, id)
  \/ \E caller \in UserIds \cup {0}, filename \in FileNames :
       last.op \notin ReadOps /\ DownloadByFilename(caller, filename)

ApiSpec == Init /\ [][ApiNext]_vars

(***************************************************************************)
(* store_pdf_and_get_url on its own, on bounded arguments and stores       *)
(***************************************************************************)
StoreTitles == {<<"a", "/", "b", " ">>, LongTitle}
StoreNames ==
  {SafeName(t, id) : t \in StoreTitles, id \in {1, 12}}
    \cup {<<"/">>, <<".", ".", "/", "x", " ", "x", ".", "p", "d", "f">>}
OldBytes == build_pdf_bytes_from_content(<<"o", "l", "d">>, <<"o">>)
NewBytes == build_pdf_bytes_from_content(<<"a">>, <<"x", NL, "x">>)

StoreInit ==
  /\ r2_client \in BOOLEAN
  /\ R2_BUCKET_NAME \in (IF r2_client THEN Buckets ELSE {<<>>})
  /\ \E f \in StoreNames :
       /\ storeIn = [filename |-> f, pdf_bytes |-> NewBytes]
       /\ localFiles \in
            {{}, {[name |-> secure_filename(f), bytes |-> OldBytes,
                   whole |-> TRUE]}}
       /\ r2Objects \in
            {{}, {[key |-> R2Key(secure_filename(f)), bytes |-> OldBytes]}}
  /\ last = NoStep
  /\ DATABASE_URL = "sqlite"
  /\ users = {}
  /\ proposals = {}
  /\ idSeq = 0
  /\ inflight = [u \in UserIds |-> NoRequest]
  /\ creates = 0
  /\ written = <<>>
  /\ OPENAI_API_KEY = FALSE
  /\ genPc = "idle"
  /\ genCall = NoCall
  /\ genResp = NoResponse
  /\ genMemo = NoResponse
  /\ clock = 0
  /\ pdfIn = [title |-> <<>>, content |-> <<>>]
  /\ pdfSrc = <<>>
  /\ pdfPc = "start"
  /\ pdfLines = <<>>
  /\ pdfK = 0
  /\ pdfY = 0
  /\ pdfOut = <<>>

StoreCall(env) ==
  LET r == store_pdf_and_get_url(storeIn.pdf_bytes, storeIn.filename, env)
  IN /\ last = NoStep
     /\ localFiles' = r.localFiles
     /\ r2Objects' = r.r2Objects
     /\ written' = Append(written, r.name)
     /\ last' = [Step("store", 0, 0, 0, "none")
                   EXCEPT !.pdf_url = r.pdf_url, !.stored = TRUE,
                          !.store = StoreOutcome(r)]
     /\ UNCHANGED <<r2_client, R2_BUCKET_NAME, DATABASE_URL, users, proposals, idSeq, inflight,
                    creates, storeIn>>
     /\ UNCHANGED <<genVars, pdfVars>>

StoreNext == \E env \in StoreEnvs(Uids) : StoreCall(env)

StoreSpec == StoreInit /\ [][StoreNext]_vars

(***************************************************************************)
(* Claims about proposals_generate / generate_proposal_text (GenSpec)      *)
(***************************************************************************)
IsProposalBody(content) ==
  /\ Len(content) > 0
  /\ Len(content[1]) > 0
  /\ content[1][1] = "# Proposal: "

HasHeading(content, h) == \E i \in 1..Len(content) : content[i] = <<"## ", h>>

NameAbsent(data) ==
  \/ data.client_name \in {Missing, ""}
  \/ data.project_title \in {Missing, ""}

\* C1: with no collaborator configured, or when the completion call raised,
\* the request is answered 200 with a proposal body, never with an error.
C1_FailureAbsorbed ==
  genResp.cause \in {"no_key", "call_failed"} =>
    /\ genResp.status = 200
    /\ IsProposalBody(genResp.content)

C1_Witness ==
  /\ genResp.cause = "call_failed"
  /\ genResp.status = 200
  /\ IsProposalBody(genResp.content)

\* C2: the body returned when the completion call failed is the body returned
\* when no collaborator is configured, and it has the seven section headings.
C2_SameFallback ==
  genResp.cause \in {"no_key", "call_failed"} =>
    /\ genResp.content = TemplateBody(genResp.data)
    /\ \A i \in 1..Len(SectionHeadings) :
         HasHeading(genResp.content, SectionHeadings[i])

\* C3 as stated: a generation request with an empty or missing client name or
\* project title is rejected with 400 and produces no text.
C3_RejectedAsStated ==
  (genResp.body = "object" /\ NameAbsent(genResp.data)) =>
    /\ genResp.status = 400
    /\ genResp.content = <<>>

\* C3 as amended: such a request is answered 200 with a body; in the two
\* template bodies a missing name is replaced by its default ("Client",
\* "Project") and an empty one is substituted as it is; the endpoint builds no
\* document.
C3_DefaultsNotRejection ==
  (genResp.body = "object" /\ NameAbsent(genResp.data)) =>
    /\ genResp.status = 200
    /\ genResp.content # <<>>
    /\ genResp.cause \in {"no_key", "call_failed"} =>
         /\ genResp.content[1] =
              <<"# Proposal: ",
                IF genResp.data.project_title = Missing THEN "Project"
                ELSE genResp.data.project_title>>
         /\ genResp.content[4][2] =
              IF genResp.data.client_name = Missing THEN "Client"
              ELSE genResp.data.client_name
    /\ written = <<>> /\ localFiles = {} /\ r2Objects = {}

C3_Witness ==
  /\ genResp.body = "object"
  /\ genResp.data.client_name = Missing
  /\ genResp.data.project_title = ""
  /\ genResp.status = 200
  /\ genResp.content[4][2] = "Client"

\* C4: a generation request that waits for the collaborator is eventually
\* answered.
C4_EventuallyReturns == (genPc = "awaiting") ~> (genPc = "idle")

\* C10: with no collaborator configured, a request with the fields of an
\* earlier request gets the body the earlier one got, whatever was requested
\* and however much time passed in between.
C10_Deterministic ==
  (/\ genResp.cause = "no_key"
   /\ genMemo.cause = "no_key"
   /\ genResp.data = genMemo.data) =>
     genResp.content = genMemo.content

C10_Witness ==
  /\ genResp.cause = "no_key"
  /\ genMemo.cause = "no_key"
  /\ genResp.data = genMemo.data
  /\ genResp.at > genMemo.at
  /\ genResp.content = genMemo.content

(***************************************************************************)
(* Claims about store_pdf_and_get_url (StoreSpec) and proposals_create     *)
(* (Spec)                                                                  *)
(***************************************************************************)
\* C5: when building or storing the PDF fails in proposals_create, the answer
\* is 500 with the cause, no PDF filename or URL is returned or recorded on
\* the proposal, and no partly written file is left in storage.
C5_NoPartialOutput ==
  (last.op = "create" /\ last.cause \in {"build", "store"}) =>
    /\ last.status = 500
    /\ last.pdf_url = NoUrl
    /\ \A p \in proposals :
         p.id = last.id => p.pdf_filename = NoName /\ p.pdf_url = NoUrl
    /\ \A f \in localFiles : f.whole

\* C6: the call returns a signed URL exactly when the R2 client is there and
\* upload and presign both succeed; in every other case it writes locally and
\* returns the local download URL, and raises exactly when that write fails;
\* when it returns, the bytes are whole in the store its URL refers to.
C6_StoreFallback ==
  last.stored =>
    LET o == last.store
        viaR2 == r2_client /\ o.upload = "ok" /\ o.presign = "ok"
    IN /\ (~o.raised /\ o.pdf_url.kind = "signed") <=> viaR2
       /\ ~viaR2 => o.local # "skipped"
       /\ o.raised <=> (~viaR2 /\ o.local # "ok")
       /\ (~o.raised /\ ~viaR2) => o.pdf_url = LocalUrl(o.pdf_filename)
       /\ ~o.raised =>
            /\ o.pdf_filename = o.name
            /\ o.pdf_url.kind = "signed" =>
                 [key |-> o.pdf_url.path, bytes |-> o.bytes] \in r2Objects
            /\ o.pdf_url.kind = "local" =>
                 [name |-> o.pdf_url.path, bytes |-> o.bytes, whole |-> TRUE]
                   \in localFiles

C6_Witness ==
  /\ last.stored
  /\ r2_client
  /\ last.store.upload = "ok"
  /\ last.store.presign = "fail"
  /\ ~last.store.raised
  /\ last.store.pdf_url.kind = "local"
  /\ \E f \in localFiles :
       f.name = last.store.pdf_url.path /\ f.bytes = NewBytes /\ f.whole

\* C7: no two create requests store under the same filename.
C7_UniqueNames ==
  \A i, j \in 1..Len(written) : i # j => written[i] # written[j]

(***************************************************************************)
(* Claims about build_pdf_bytes_from_content (PdfSpec)                     *)
(***************************************************************************)
PdfDone == pdfPc = "done"

\* the body lines drawn so far, in drawing order (the first drawString is the
\* title)
BodyDrawn ==
  IF pdfOut = <<>> THEN <<>>
  ELSE SelectSeq(Tail(pdfOut), LAMBDA o : o.op = "drawString")

\* the indices in pdfOut of the body lines, the page an operation is on
BodyAt == {i \in 2..Len(pdfOut) : pdfOut[i].op = "drawString"}
PageOf(i) == 1 + Cardinality({j \in 1..i : pdfOut[j].op = "showPage"})
PageCount == PageOf(Len(pdfOut))
LinesOn(p) == Cardinality({i \in BodyAt : PageOf(i) = p})

FirstChars(s, n) == [i \in 1..Min(n, Len(s)) |-> s[i]]

\* C8: the builder draws one body line per newline-separated input line, in
\* input order, each cut to its first 100 characters (never wrapped onto a
\* further line), and the title cut to its first 90 characters.
C8_HardTruncation ==
  /\ pdfPc # "start" =>
       /\ pdfOut[1].op = "drawString"
       /\ pdfOut[1].text = FirstChars(pdfIn.title, 90)
       /\ Len(BodyDrawn) = pdfK
       /\ \A k \in 1..Len(BodyDrawn) :
            BodyDrawn[k].text = FirstChars(pdfSrc[k], 100)
  /\ PdfDone => Len(BodyDrawn) = Len(pdfSrc)

C8_Witness ==
  /\ PdfDone
  /\ Len(pdfSrc) > 1
  /\ Len(pdfIn.title) > 90
  /\ Len(pdfOut[1].text) = 90
  /\ \E k \in 1..Len(pdfSrc) :
       Len(pdfSrc[k]) > 100 /\ Len(BodyDrawn[k].text) = 100

\* C9: a page break is emitted before a body line exactly when the cursor is
\* below the bottom margin; every body line is drawn between the margins, 16
\* below the previous one of its page; the document does not end with a page
\* break; the first page holds 45 body lines and every later full page 47.
C9_Pagination ==
  pdfPc # "start" =>
    /\ \A i \in 1..Len(pdfOut) :
         pdfOut[i].op = "drawString" =>
           50 * Unit <= pdfOut[i].y /\ pdfOut[i].y <= PageHeight - 50 * Unit
    /\ pdfOut[1].y = PageHeight - 50 * Unit
    /\ pdfK >= 1 => pdfOut[2] = [pdfOut[2] EXCEPT !.op = "drawString",
                                                  !.y = PageHeight - 80 * Unit]
    /\ \A i \in BodyAt :
         i < Len(pdfOut) =>
           IF pdfOut[i].y - 16 * Unit < 50 * Unit
           THEN /\ pdfOut[i + 1].op = "showPage"
                /\ i + 2 \in BodyAt
                /\ pdfOut[i + 2].y = PageHeight - 50 * Unit
           ELSE /\ i + 1 \in BodyAt
                /\ pdfOut[i + 1].y = pdfOut[i].y - 16 * Unit
    /\ pdfOut[Len(pdfOut)].op = "drawString"
    /\ \A p \in 1..PageCount :
         IF p = PageCount THEN LinesOn(p) <= (IF p = 1 THEN 45 ELSE 47)
         ELSE LinesOn(p) = IF p = 1 THEN 45 ELSE 47

C9_Witness ==
  /\ PdfDone
  /\ PageCount = 3
  /\ LinesOn(1) = 45
  /\ LinesOn(2) = 47
  /\ LinesOn(3) >= 1

(***************************************************************************)
(* Claims about the frame of proposals_create (Spec)                       *)
(***************************************************************************)
\* a text with nothing in it but blanks and line ends
IsBlank(text) == \A i \in 1..Len(text) : text[i] \in {" ", NL}

\* a step that is the first half of a create request (a repeated rejection
\* changes nothing and is a stuttering step)
IsCreateRequest == last'.op \in {"create", "create_commit"} /\ last'.input # NoInput

\* C11: a create request whose title or content is empty after trimming
\* answers 400 and adds no proposal, starts no PDF and touches no store; one
\* with both non-empty and generate_pdf false answers 200 and adds exactly
\* one proposal, owned by the caller, with pdf_filename and pdf_url unset,
\* and starts no PDF and touches no store.
C11_CreateFrame ==
  [][IsCreateRequest =>
       LET in == last'.input
           blank == IsBlank(in.title) \/ IsBlank(in.content)
       IN /\ blank =>
               /\ last'.status = 400
               /\ UNCHANGED <<proposals, idSeq, inflight, localFiles,
                              r2Objects, written, users>>
          /\ (~blank /\ ~in.generate_pdf) =>
               /\ last'.status = 200
               /\ Cardinality(proposals') = Cardinality(proposals) + 1
               /\ \E p \in proposals' \ proposals :
                    /\ proposals' = proposals \cup {p}
                    /\ p.id = last'.id
                    /\ p.user_id = last'.user
                    /\ p.pdf_filename = NoName
                    /\ p.pdf_url = NoUrl
               /\ UNCHANGED <<inflight, localFiles, r2Objects, written,
                              users>>]_vars

\* a rejected create, with a non-empty title and a content of blanks only,
\* while the caller already has a proposal
C11_Witness ==
  /\ last.op = "create"
  /\ last.status = 400
  /\ ~IsBlank(last.input.title)
  /\ IsBlank(last.input.content)
  /\ \E p \in proposals : p.user_id = last.user

(***************************************************************************)
(* Claims about the read endpoints (ApiSpec)                               *)
(***************************************************************************)
OwnRow(u, id) == {p \in proposals : p.id = id /\ p.user_id = u}

\* C12: a download by id of one of the caller's proposals redirects to the
\* recorded URL when the PDF was stored in the object store, serves the file
\* of the recorded name when it was stored locally, and answers 404 only
\* when the proposal has no stored PDF.
C12_DownloadServes ==
  (last.op = "download" /\ OwnRow(last.user, last.id) # {}) =>
    \A p \in OwnRow(last.user, last.id) :
      /\ p.pdf_url.kind = "signed" =>
           /\ last.status = 302
           /\ last.body.kind = "redirect"
           /\ last.pdf_url = p.pdf_url
      /\ p.pdf_url.kind = "local" =>
           /\ last.status = 200
           /\ last.body.kind = "file"
           /\ last.body.name = p.pdf_filename
      /\ last.status = 404 => (p.pdf_filename = NoName /\ p.pdf_url = NoUrl)

\* C13: the list holds exactly the caller's proposals; get, delete and
\* download by id of another user's proposal answer 404; and nothing served
\* (a proposal, a redirect, a file) is the content or the PDF of a proposal
\* of somebody other than the caller.
C13_TenantIsolation ==
  /\ last.op = "all" =>
       {r.id : r \in last.body.rows}
         = {p.id : p \in {q \in proposals : q.user_id = last.user}}
  /\ (/\ last.op \in {"get", "delete", "download"}
      /\ \E p \in proposals : p.id = last.id /\ p.user_id # last.user)
       => last.status = 404
  /\ last.body.kind = "proposal" => OwnRow(last.user, last.id) # {}
  /\ last.body.kind = "redirect" =>
       ~\E p \in proposals :
          p.user_id # last.user /\ p.pdf_url = last.pdf_url
  /\ last.body.kind = "file" =>
       ~\E p \in proposals :
          p.user_id # last.user /\ p.pdf_filename = last.body.name

====
